---- MODULE Spec2Model ----
(***************************************************************************)
(* Upload lifecycle of nextjs-neon-r2: the presign, confirm and files       *)
(* (GET/DELETE) route handlers, the images table they read and write, the   *)
(* R2 bucket, and the presigned PUT URLs held by clients.                   *)
(*                                                                          *)
(* A route handler runs from one awaited database or bucket call to the     *)
(* next, so the handlers of concurrent requests interleave at exactly those *)
(* calls; each single SQL statement is atomic.  A step of the model is one  *)
(* such call together with the handler code before and after it that        *)
(* touches only the handler's locals: authCheck, the zod schema, signing    *)
(* and the building of the response.  A handler that is suspended between   *)
(* two calls occupies a slot of Procs.  A response is delivered before the  *)
(* next step of any handler.                                                *)
(*                                                                          *)
(* The model is explored under a set of profiles, each of which bounds one  *)
(* dimension generously and the others tightly: handlers in flight, the     *)
(* fileIds of clients and the credentials the deployment is given over      *)
(* time, and the clock.                                                     *)
(***************************************************************************)
EXTENDS Integers, Sequences, FiniteSets, TLC

(* ------------------------------ bounds --------------------------------- *)
\* number of request handlers that can be in flight at once
MaxInflight == 2
\* number of rows the images table can hold
MaxRecords == 2
\* last instant of the clock, in seconds
MaxTime == 3600
\* the clock advances in steps of this many seconds
TickStep == 3600
\* the most rows the images table shows
MaxRows == 2
\* the most deleteImage calls under way at once
MaxDeletes == 3
\* the most files a call of prepareImagesForUpload or handleUpload is given
MaxFiles == 2

(* ------------------------- program constants --------------------------- *)
\* src/zod/images.ts:7, deployed with MAX_IMAGES=2
MAX_IMAGES == 2
\* src/zod/images.ts:4, parseInt(MAX_IMAGE_SIZE_KB || '1024') * 1024
MAX_IMAGE_SIZE_BYTES == 1024 * 1024
\* src/utils/r2.ts:62, { expiresIn: 3600 }
EXPIRES_IN == 3600
\* src/unnamed/part_001:8, parseInt(NEXT_PUBLIC_MAX_IMAGE_SIZE_KB || '300')
IMAGE_EXPIRATION_SECONDS == 300
\* src/unnamed/part_001:7
R2_PUBLIC_BASE_URL == "https://r2.example"

(* ------------------------------ inputs --------------------------------- *)
\* values NEXT_PUBLIC_OUR_AUTH_TOKEN takes over the deployments of the app
Tokens == {"u1", "u2"}
\* process.env.NEXT_PUBLIC_OUR_AUTH_TOKEN when the variable is not set: the
\* value undefined, which a template string renders as the text undefined
Unset == "undefined"
\* the configurations of the expected token
Configs == Tokens \cup {Unset}
\* the fileId tokens clients generate
FileIds == {"f1", "f2"}
FileTypes == {"image/webp", "image/png"}
FileSizes == {500000, 600000}

Procs == 1 .. MaxInflight

\* the values of maxSizeKB a call of prepareImagesForUpload is given
MaxSizesKB == {300, 1024}
\* a selected file, by the bytes of the WebP blob the canvas encoder makes
\* of it (after the scaling to 1920 pixels): floor bytes at quality 0 and
\* slope more bytes for each thousandth of quality
PrepFiles == [floor : {100 * 1024, 400 * 1024}, slope : {0, 1024}]

\* a completedAt that is SQL NULL
NULL == -1
\* an imageId that names no row of the table
UnknownId == 0

\* the authorization header of a request: absent, or `Bearer <t>`
\* an image id that is not of the form of a UUID
NotUuid == -2

\* the promise of an image's conversion was rejected
Rejected == -3

NoHeader == <<>>
Bearer(t) == <<"Bearer", t>>
HeadersOf(tokens) == {NoHeader} \cup {Bearer(t) : t \in tokens}

\* sequences over S of length lo..hi
SeqsOf(S, lo, hi) == UNION {[1 .. n -> S] : n \in lo .. hi}

\* the elements of a sequence
Range(s) == {s[i] : i \in DOMAIN s}

\* the elements of set S of integers as a sequence in ascending order
RECURSIVE SortedSeq(_)
SortedSeq(S) ==
  IF S = {} THEN <<>>
  ELSE LET m == CHOOSE x \in S : \A y \in S : x <= y
       IN <<m>> \o SortedSeq(S \ {m})

(* ----------------------------- authCheck ------------------------------- *)
\* mutant: any bearer token is accepted and taken as the caller
authCheck_AnyBearer(header, token) ==
  IF header = NoHeader
  THEN [authenticated |-> FALSE, userId |-> "undefined"]
  ELSE [authenticated |-> TRUE, userId |-> header[2]]

\* src/app/api/images/auth.ts:7-15
authCheck(header, token) ==
  IF header = NoHeader \/ header # Bearer(token)
  THEN [authenticated |-> FALSE, userId |-> "undefined"]
  ELSE [authenticated |-> TRUE, userId |-> token]

(* --------------------------- zod validation ---------------------------- *)
\* mutant: fileSize is checked to be positive only
singleImageSchema_NoMaxSize(img) ==
  /\ img.fileId \in FileIds
  /\ img.fileType # ""
  /\ img.fileSize > 0

\* z.string().uuid() on an image id: every id but the malformed one passes
isUuid(id) == id # NotUuid

\* singleImageSchema: fileId uuid, fileType non-empty, 0 < fileSize <= max
singleImageSchema(img) ==
  /\ img.fileId \in FileIds
  /\ img.fileType # ""
  /\ img.fileSize > 0
  /\ img.fileSize <= MAX_IMAGE_SIZE_BYTES

presignRequestSchema(body) ==
  /\ Len(body) >= 1
  /\ Len(body) <= MAX_IMAGES
  /\ \A i \in DOMAIN body : singleImageSchema(body[i])

\* mutant: the array of updates has no minimum length
confirmUploadSchema_NoMin(body) ==
  /\ Len(body) <= MAX_IMAGES
  /\ \A i \in DOMAIN body :
       /\ isUuid(body[i].imageId)
       /\ body[i].status \in {"completed", "failed"}

confirmUploadSchema(body) ==
  /\ Len(body) >= 1
  /\ Len(body) <= MAX_IMAGES
  /\ \A i \in DOMAIN body :
       /\ isUuid(body[i].imageId)
       /\ body[i].status \in {"completed", "failed"}

deleteImagesSchema(body) ==
  /\ Len(body) >= 1
  /\ Len(body) <= MAX_IMAGES
  /\ \A i \in DOMAIN body : isUuid(body[i])

\* validationResult.error.errors: a zod issue is its code and its path
ZodIssue(code, path) == [code |-> code, path |-> path]

\* the issue a check raises when it fails
IssueIf(failed, code, path) == IF failed THEN {ZodIssue(code, path)} ELSE {}

\* the issues of .min(1).max(MAX_IMAGES) on the array under key name
arrayIssues(name, arr) ==
  IssueIf(Len(arr) < 1, "too_small", <<name>>)
    \cup IssueIf(Len(arr) > MAX_IMAGES, "too_big", <<name>>)

\* the issues of singleImageSchema on item i (counted from 0) of images
singleImageIssues(img, i) ==
  IssueIf(img.fileType = "", "too_small", <<"images", i, "fileType">>)
    \cup IssueIf(img.fileSize <= 0, "too_small", <<"images", i, "fileSize">>)
    \cup IssueIf(img.fileSize > MAX_IMAGE_SIZE_BYTES, "too_big",
                 <<"images", i, "fileSize">>)

presignRequestIssues(body) ==
  arrayIssues("images", body)
    \cup UNION {singleImageIssues(body[i], i - 1) : i \in DOMAIN body}

confirmUploadIssues(body) ==
  arrayIssues("updates", body)
    \cup {ZodIssue("invalid_string", <<"updates", i - 1, "imageId">>) :
            i \in {j \in DOMAIN body : ~isUuid(body[j].imageId)}}
    \cup {ZodIssue("invalid_enum_value", <<"updates", i - 1, "status">>) :
            i \in {j \in DOMAIN body : body[j].status \notin {"completed", "failed"}}}

deleteImagesIssues(body) ==
  arrayIssues("imageIds", body)
    \cup {ZodIssue("invalid_string", <<"imageIds", i - 1>>) :
            i \in {j \in DOMAIN body : ~isUuid(body[j])}}

(* -------------------- record store: db/operations/images ---------------- *)
\* the ids of the rows of table imgs
Ids(imgs) == DOMAIN imgs

\* createImageRecordsBatch: one INSERT of all rows, status pending,
\* createdAt defaultNow(), completedAt NULL, ids generated fresh
createImageRecordsBatch(imgs, imageData, t) ==
  imgs \o [i \in DOMAIN imageData |->
             [userId |-> imageData[i].userId,
              objectKey |-> imageData[i].objectKey,
              fileUrl |-> imageData[i].fileUrl,
              mimeType |-> imageData[i].mimeType,
              sizeBytes |-> imageData[i].sizeBytes,
              status |-> "pending",
              createdAt |-> t,
              completedAt |-> NULL]]

\* mutant: the rows are inserted one statement each (createImageRecord in a
\* loop) and the last statement throws
createImageRecordsBatchThrew_RowByRow(imgs, imageData, t) ==
  createImageRecordsBatch(imgs, SubSeq(imageData, 1, Len(imageData) - 1), t)

\* createImageRecordsBatch threw: its INSERT is one statement, so the table
\* holds none of the rows
createImageRecordsBatchThrew(imgs, imageData, t) == imgs

\* mutant: the UPDATE is not scoped to the caller (as in markImageFailed)
updateImageStatusBatchWhere_AnyOwner(imgs, imageIds, userId) ==
  {id \in Ids(imgs) : id \in imageIds}

\* the WHERE clause of updateImageStatusBatch: id in imageIds, owner = userId
updateImageStatusBatchWhere(imgs, imageIds, userId) ==
  {id \in Ids(imgs) : id \in imageIds /\ imgs[id].userId = userId}

\* mutant: the UPDATE sets the status only
updateImageStatusBatch_StatusOnly(imgs, imageIds, status, userId, t) ==
  [id \in Ids(imgs) |->
     IF id \in imageIds /\ imgs[id].userId = userId
     THEN [imgs[id] EXCEPT !.status = status]
     ELSE imgs[id]]

\* mutant: the rows are set completed whatever status is given (as
\* markImageCompleted)
updateImageStatusBatch_AlwaysCompleted(imgs, imageIds, status, userId, t) ==
  [id \in Ids(imgs) |->
     IF id \in imageIds /\ imgs[id].userId = userId
     THEN [imgs[id] EXCEPT !.status = "completed", !.completedAt = t]
     ELSE imgs[id]]

\* mutant: an upload reported failed is recorded as canceled
updateImageStatusBatch_FailedAsCanceled(imgs, imageIds, status, userId, t) ==
  [id \in Ids(imgs) |->
     IF id \in imageIds /\ imgs[id].userId = userId
     THEN [imgs[id] EXCEPT
             !.status = IF status = "failed" THEN "canceled" ELSE status,
             !.completedAt = t]
     ELSE imgs[id]]

\* updateImageStatusBatch: the table after the UPDATE
updateImageStatusBatch(imgs, imageIds, status, userId, t) ==
  [id \in Ids(imgs) |->
     IF id \in updateImageStatusBatchWhere(imgs, imageIds, userId)
     THEN [imgs[id] EXCEPT !.status = status, !.completedAt = t]
     ELSE imgs[id]]

\* mutant: the SELECT is by owner only (as getImagesByUserId)
getCompletedImagesByUserId_AnyStatus(imgs, userId) ==
  {id \in Ids(imgs) : imgs[id].userId = userId}

\* getCompletedImagesByUserId: the rows selected
getCompletedImagesByUserId(imgs, userId) ==
  {id \in Ids(imgs) : imgs[id].userId = userId /\ imgs[id].status = "completed"}

\* mutant: the SELECT is not restricted to completed rows
getImageObjectKeysByUserAndIds_AnyStatus(imgs, userId, imageIds) ==
  {id \in Ids(imgs) : imgs[id].userId = userId /\ id \in imageIds}

\* getImageObjectKeysByUserAndIds: the rows selected
getImageObjectKeysByUserAndIds(imgs, userId, imageIds) ==
  {id \in Ids(imgs) : /\ imgs[id].userId = userId
                      /\ id \in imageIds
                      /\ imgs[id].status = "completed"}

\* the WHERE clause of markImagesAsDeleted
markImagesAsDeletedWhere(imgs, imageIds, userId) ==
  {id \in Ids(imgs) : /\ id \in imageIds
                      /\ imgs[id].userId = userId
                      /\ imgs[id].status = "completed"}

\* mutant: the rows are removed from the table (as deleteImageRecord)
markImagesAsDeleted_HardDelete(imgs, imageIds, userId, t) ==
  LET kept == SortedSeq(Ids(imgs) \ markImagesAsDeletedWhere(imgs, imageIds, userId))
  IN [i \in DOMAIN kept |-> imgs[kept[i]]]

\* mutant: the UPDATE stamps createdAt instead of completedAt
markImagesAsDeleted_StampsCreatedAt(imgs, imageIds, userId, t) ==
  [id \in Ids(imgs) |->
     IF id \in markImagesAsDeletedWhere(imgs, imageIds, userId)
     THEN [imgs[id] EXCEPT !.status = "deleted", !.createdAt = t]
     ELSE imgs[id]]

\* markImagesAsDeleted: the table after the UPDATE
markImagesAsDeleted(imgs, imageIds, userId, t) ==
  [id \in Ids(imgs) |->
     IF id \in markImagesAsDeletedWhere(imgs, imageIds, userId)
     THEN [imgs[id] EXCEPT !.status = "deleted", !.completedAt = t]
     ELSE imgs[id]]

(* ------------------------------- state --------------------------------- *)
VARIABLES
  OUR_AUTH_TOKEN, \* the credential the running deployment expects
  now,            \* the clock: what new Date() / Date.now() returns
  images,         \* the images table: a sequence of rows, id = position
  storage,        \* the object keys that hold an object in the bucket
  grants,         \* the presigned PUT URLs delivered to clients
  pc,             \* per slot: the call its handler goes on with
  req,            \* per slot: the request and the handler's locals
  response,       \* the response being delivered to a client, if any
  profile,        \* the bounds this behaviour is explored under
  prep,           \* the browser: a call of prepareImagesForUpload
  upload,         \* the browser: a call of handleUpload
  table           \* the browser: the ImagesTable component

\* the state of the API, the table and the bucket
server ==
  <<OUR_AUTH_TOKEN, now, images, storage, grants, pc, req, response, profile>>

vars == <<server, prep, upload, table>>

\* inflight: handlers that can be suspended at once; fileIds: the fileIds
\* clients send; fileTypes, fileSizes: the content descriptors they
\* declare; configs: the values the expected token takes, and redeploys
\* change it when Unset is among them;
\* time: the last instant of the clock
Profiles ==
  LET oneFileId == {CHOOSE f \in FileIds : TRUE}
      oneType == {CHOOSE ty \in FileTypes : TRUE}
      oneSize == {CHOOSE sz \in FileSizes : TRUE}
  IN {[inflight |-> MaxInflight, fileIds |-> oneFileId, fileTypes |-> oneType,
       fileSizes |-> oneSize, configs |-> Tokens, time |-> 0],
      [inflight |-> 1, fileIds |-> FileIds, fileTypes |-> oneType,
       fileSizes |-> oneSize, configs |-> Configs, time |-> 0],
      [inflight |-> 1, fileIds |-> FileIds, fileTypes |-> oneType,
       fileSizes |-> oneSize, configs |-> Tokens, time |-> MaxTime],
      [inflight |-> 1, fileIds |-> oneFileId, fileTypes |-> FileTypes,
       fileSizes |-> FileSizes, configs |-> Tokens, time |-> 0]}

\* the authorization headers clients send: none, or Bearer and a value the
\* expected token takes
Headers == HeadersOf(profile.configs)

\* the locals of a suspended handler: of confirm, the ids reported failed
\* and the rows updated so far; of DELETE, the imageIds, the object keys
\* and the Errors of the bucket's answer
NoReq ==
  [userId |-> "undefined", failed |-> {}, allUpdatedImages |-> <<>>,
   imageIds |-> <<>>, objectKeys |-> {}, errors |-> {}]

\* a response: its status and the fields of its JSON body; kind names the
\* endpoint of a 200 body; details are the zod issues of a 400 and the
\* keys of the Errors of a failed storage delete
NoResp ==
  [kind |-> "none", status |-> 0, error |-> "", results |-> <<>>,
   updatedCount |-> 0, images |-> <<>>, missingImageIds |-> <<>>,
   deletedCount |-> 0, deletedImages |-> <<>>, details |-> {}]

\* no call of prepareImagesForUpload is under way
NoPrep ==
  [maxSizeKB |-> 0, files |-> <<>>, quality |-> <<>>, settled |-> <<>>,
   outcome |-> "none"]

\* no call of handleUpload is under way: at is its position,
\* selectedFiles the number of files selected, results the imageIds of the
\* presign results, puts the state of each result's PUT, updates the body
\* of the confirm request and confirm that request's state
NoUpload ==
  [at |-> "idle", selectedFiles |-> 0, results |-> <<>>, puts |-> <<>>,
   uploadStatuses |-> <<>>, updates |-> <<>>, confirm |-> "none"]

\* the ImagesTable component is not mounted: images are the ids of the rows
\* it shows, deletingImageId its state of that name, deleting and
\* refetching count, per image, the deleteImage calls that await
\* axios.delete and invalidateQueries
NoTable ==
  [images |-> {}, deletingImageId |-> NULL, deleting |-> <<>>,
   refetching |-> <<>>]

Init ==
  /\ OUR_AUTH_TOKEN = "u1"
  /\ now = 0
  /\ images = <<>>
  /\ storage = {}
  /\ grants = {}
  /\ pc = [p \in Procs |-> "idle"]
  /\ req = [p \in Procs |-> NoReq]
  /\ response = NoResp
  /\ profile \in Profiles
  /\ prep = NoPrep
  /\ upload = NoUpload
  /\ table = NoTable

\* no response is on its way: the next request or call can be served
Ready == response = NoResp

\* a new handler takes the first slot that holds no suspended handler
Free(p) ==
  /\ p <= profile.inflight
  /\ pc[p] = "idle"
  /\ \A q \in Procs : q < p => pc[q] # "idle"

\* the handlers' check after authCheck: the request is authenticated and
\* carries a userId
PassesAuth(header) ==
  LET auth == authCheck(header, OUR_AUTH_TOKEN)
  IN auth.authenticated /\ auth.userId # "undefined"

\* the bodies worth sending with a header: a request that fails authCheck
\* is answered before its body is read
BodiesOf(header, bodies) ==
  IF PassesAuth(header) THEN bodies ELSE {<<>>}

\* NextResponse.json(r): the handler returns and its locals are gone
Respond(p, r) ==
  /\ pc' = [pc EXCEPT ![p] = "idle"]
  /\ req' = [req EXCEPT ![p] = NoReq]
  /\ response' = r

\* the handler of slot p is suspended at its next call
Goto(p, label, r) ==
  /\ pc' = [pc EXCEPT ![p] = label]
  /\ req' = [req EXCEPT ![p] = r]
  /\ response' = NoResp

\* NextResponse.json({ error }, { status })
Error(status, error) ==
  [NoResp EXCEPT !.kind = "error", !.status = status, !.error = error]

Unauthorized == Error(401, "Unauthorized - invalid or missing authentication")
InvalidRequest(issues) ==
  [Error(400, "Invalid request data") EXCEPT !.details = issues]
InternalError == Error(500, "Internal server error")

\* the ids a client can name: those of existing rows and one of no row
KnownIds == Ids(images) \cup {UnknownId}

(* ------------------------- request bodies ------------------------------ *)
\* a body of MAX_IMAGES + 1 copies of item x
TooLong(x) == [i \in 1 .. MAX_IMAGES + 1 |-> x]

PresignItems ==
  [fileId : profile.fileIds, fileType : profile.fileTypes,
   fileSize : profile.fileSizes]

PresignBodies ==
  SeqsOf(PresignItems, 0, MAX_IMAGES)
    \cup {TooLong(x) : x \in PresignItems}
    \cup {<<[x EXCEPT !.fileSize = sz]>> :
            x \in PresignItems, sz \in {0, MAX_IMAGE_SIZE_BYTES + 1}}

ConfirmItems == [imageId : KnownIds, status : {"completed", "failed"}]

ConfirmBodies ==
  SeqsOf(ConfirmItems, 0, MAX_IMAGES)
    \cup {TooLong(x) : x \in ConfirmItems}
    \cup {<<[x EXCEPT !.status = "canceled"]>> : x \in ConfirmItems}
    \cup {<<[x EXCEPT !.imageId = NotUuid]>> : x \in ConfirmItems}

DeleteBodies ==
  SeqsOf(KnownIds, 0, MAX_IMAGES)
    \cup {TooLong(x) : x \in KnownIds}
    \cup {<<NotUuid>>}

(* --------------------- POST /api/images/presign ------------------------ *)
\* src/utils/r2.ts:49-68: the signed PUT URL for key, type and length,
\* signed at time t
\* mutant: the command is signed without its ContentLength
getSignedUrlForUpload_NoContentLength(key, contentType, fileSize, t) ==
  [key |-> key, contentType |-> contentType, contentLength |-> NULL,
   expires |-> t + EXPIRES_IN]

getSignedUrlForUpload(key, contentType, fileSize, t) ==
  [key |-> key, contentType |-> contentType, contentLength |-> fileSize,
   expires |-> t + EXPIRES_IN]

\* step 3 of the handler: the presignedResults of the validated images
presignedResults(userId, body, t) ==
  [i \in DOMAIN body |->
     LET image == body[i]
         objectKey == <<userId, image.fileId>>
     IN [objectKey |-> objectKey,
         presignedUrl |-> getSignedUrlForUpload(objectKey, image.fileType,
                                                image.fileSize, t),
         publicFileUrl |-> <<R2_PUBLIC_BASE_URL, objectKey>>,
         fileType |-> image.fileType,
         fileSize |-> image.fileSize,
         expiresAt |-> t + IMAGE_EXPIRATION_SECONDS]]

\* step 4: the rows handed to createImageRecordsBatch
imageData(userId, results) ==
  [i \in DOMAIN results |->
     [userId |-> userId,
      objectKey |-> results[i].objectKey,
      fileUrl |-> results[i].publicFileUrl,
      mimeType |-> results[i].fileType,
      sizeBytes |-> results[i].fileSize]]

\* mutant: the records are paired with the results in reverse
PresignResponse_Reversed(results, imageRecords) ==
  [NoResp EXCEPT
     !.kind = "presign", !.status = 200,
     !.results = [i \in DOMAIN results |->
                    [objectKey |-> results[i].objectKey,
                     presignedUrl |-> results[i].presignedUrl,
                     publicFileUrl |-> results[i].publicFileUrl,
                     imageId |-> imageRecords[Len(results) + 1 - i],
                     expiresAt |-> results[i].expiresAt]]]

\* step 5: the 200 response; imageRecords are the ids the INSERT returned
PresignResponse(results, imageRecords) ==
  [NoResp EXCEPT
     !.kind = "presign", !.status = 200,
     !.results = [i \in DOMAIN results |->
                    [objectKey |-> results[i].objectKey,
                     presignedUrl |-> results[i].presignedUrl,
                     publicFileUrl |-> results[i].publicFileUrl,
                     imageId |-> imageRecords[i],
                     expiresAt |-> results[i].expiresAt]]]

\* the handler up to its 200 response: authCheck, the zod schema, the
\* signing, the batch INSERT
PresignPOST(header, body) ==
  /\ Ready
  /\ LET userId == authCheck(header, OUR_AUTH_TOKEN).userId IN
     IF userId = "undefined"
     THEN /\ response' = Unauthorized
          /\ UNCHANGED <<images, grants>>
     ELSE IF ~presignRequestSchema(body)
     THEN /\ response' = InvalidRequest(presignRequestIssues(body))
          /\ UNCHANGED <<images, grants>>
     ELSE LET results == presignedResults(userId, body, now)
              imageRecords == [i \in DOMAIN results |-> Len(images) + i]
          IN /\ Len(images) + Len(body) <= MaxRecords
             /\ images' = createImageRecordsBatch(
                            images, imageData(userId, results), now)
             /\ grants' = grants \cup
                  {results[i].presignedUrl : i \in DOMAIN results}
             /\ response' = PresignResponse(results, imageRecords)
  /\ UNCHANGED <<prep, upload, table, profile, OUR_AUTH_TOKEN, now, storage, pc, req>>

\* the catch block: the signing of an item or the INSERT threw, for a
\* request that passed authCheck and the schema; an INSERT that throws
\* inserted no row, and no signed URL reaches the client
PresignCatch(header, body) ==
  /\ Ready
  /\ authCheck(header, OUR_AUTH_TOKEN).userId # "undefined"
  /\ presignRequestSchema(body)
  /\ Len(images) + Len(body) <= MaxRecords
  /\ LET userId == authCheck(header, OUR_AUTH_TOKEN).userId
         results == presignedResults(userId, body, now)
     IN images' = createImageRecordsBatchThrew(
                    images, imageData(userId, results), now)
  /\ response' = InternalError
  /\ UNCHANGED <<prep, upload, table, profile, OUR_AUTH_TOKEN, now, storage, grants, pc, req>>

\* a client PUTs an object with a signed URL it holds and that has not
\* expired
ClientPUT(url) ==
  /\ Ready
  /\ url \in grants
  /\ now < url.expires
  /\ storage' = storage \cup {url.key}
  /\ response' = NoResp
  /\ UNCHANGED <<prep, upload, table, profile, OUR_AUTH_TOKEN, now, images, grants, pc, req>>

(* --------------------- POST /api/images/confirm ------------------------ *)
\* mutant: the updates are not grouped by status
groupedUpdates_Ungrouped(updates, status) ==
  {updates[i].imageId : i \in DOMAIN updates}

\* step 3: the imageIds of the updates that report the given status
groupedUpdates(updates, status) ==
  {updates[i].imageId : i \in {j \in DOMAIN updates : updates[j].status = status}}

\* step 5: the 200 response
ConfirmResponse(allUpdatedImages) ==
  [NoResp EXCEPT !.kind = "confirm", !.status = 200,
                 !.updatedCount = Len(allUpdatedImages)]

\* the rows an updateImageStatusBatch call returns
updatedImages(imgs, imageIds, userId) ==
  SortedSeq(updateImageStatusBatchWhere(imgs, imageIds, userId))

\* the handler up to the return of its first UPDATE: authCheck, the zod
\* schema, the grouping, then the UPDATE of the ids reported completed
\* or, when there is none, of the ids reported failed
ConfirmPOST(p, header, body) ==
  /\ Ready
  /\ Free(p)
  /\ LET auth == authCheck(header, OUR_AUTH_TOKEN)
         completed == groupedUpdates(body, "completed")
         failed == groupedUpdates(body, "failed")
     IN IF ~auth.authenticated \/ auth.userId = "undefined"
        THEN Respond(p, Unauthorized) /\ UNCHANGED images
        ELSE IF ~confirmUploadSchema(body)
        THEN Respond(p, InvalidRequest(confirmUploadIssues(body)))
             /\ UNCHANGED images
        ELSE IF completed # {}
        THEN /\ images' = updateImageStatusBatch(images, completed,
                                                 "completed", auth.userId, now)
             /\ LET all == updatedImages(images, completed, auth.userId)
                IN IF failed # {}
                   THEN Goto(p, "confirm_failed",
                             [NoReq EXCEPT !.userId = auth.userId,
                                           !.failed = failed,
                                           !.allUpdatedImages = all])
                   ELSE Respond(p, ConfirmResponse(all))
        ELSE /\ images' = updateImageStatusBatch(images, failed, "failed",
                                                 auth.userId, now)
             /\ Respond(p, ConfirmResponse(
                             updatedImages(images, failed, auth.userId)))
  /\ UNCHANGED <<prep, upload, table, profile, OUR_AUTH_TOKEN, now, storage, grants>>

\* step 4, second half, when both groups have ids: the UPDATE of the ids
\* reported failed, and the response
ConfirmFailed(p) ==
  /\ Ready
  /\ pc[p] = "confirm_failed"
  /\ LET failed == req[p].failed
         all == req[p].allUpdatedImages
                  \o updatedImages(images, failed, req[p].userId)
     IN /\ images' = updateImageStatusBatch(images, failed, "failed",
                                            req[p].userId, now)
        /\ Respond(p, ConfirmResponse(all))
  /\ UNCHANGED <<prep, upload, table, profile, OUR_AUTH_TOKEN, now, storage, grants>>

\* the catch block: the first UPDATE of a request that passed authCheck
\* and the schema threw
ConfirmCatch ==
  /\ Ready
  /\ \E header \in Headers, body \in ConfirmBodies :
       /\ PassesAuth(header)
       /\ confirmUploadSchema(body)
  /\ response' = InternalError
  /\ UNCHANGED <<prep, upload, table, profile, OUR_AUTH_TOKEN, now, images, storage, grants, pc, req>>

\* the catch block: the UPDATE of the ids reported failed threw after the
\* UPDATE of the ids reported completed was applied
ConfirmFailedCatch(p) ==
  /\ Ready
  /\ pc[p] = "confirm_failed"
  /\ Respond(p, InternalError)
  /\ UNCHANGED <<prep, upload, table, profile, OUR_AUTH_TOKEN, now, images, storage, grants>>

(* ----------------------- GET /api/images/files ------------------------- *)
\* ORDER BY created_at: the orders in which the rows of S can be returned
OrderedByCreatedAt(imgs, S) ==
  {s \in [1 .. Cardinality(S) -> S] :
     /\ \A i, j \in DOMAIN s : i # j => s[i] # s[j]
     /\ \A i, j \in DOMAIN s : i < j => imgs[s[i]].createdAt <= imgs[s[j]].createdAt}

\* the whole handler: authCheck, the SELECT, the response
FilesGET(header) ==
  /\ Ready
  /\ LET auth == authCheck(header, OUR_AUTH_TOKEN) IN
     IF ~auth.authenticated \/ auth.userId = "undefined"
     THEN response' = Unauthorized
     ELSE \E rows \in OrderedByCreatedAt(
                 images, getCompletedImagesByUserId(images, auth.userId)) :
            response' = [NoResp EXCEPT !.kind = "get", !.status = 200,
                                       !.images = rows]
  /\ UNCHANGED <<prep, upload, table, profile, OUR_AUTH_TOKEN, now, images, storage, grants, pc, req>>

\* the catch block: the SELECT threw
FilesGETCatch ==
  /\ Ready
  /\ \E header \in Headers : PassesAuth(header)
  /\ response' = InternalError
  /\ UNCHANGED <<prep, upload, table, profile, OUR_AUTH_TOKEN, now, images, storage, grants, pc, req>>

(* ---------------------- DELETE /api/images/files ----------------------- *)
\* mutant: the requested ids are not compared with the ids found
missingImageIds_NotCompared(imageIds, foundImageIds) == <<>>

\* imageIds.filter(id => !foundImageIds.includes(id))
missingImageIds(imageIds, foundImageIds) ==
  SelectSeq(imageIds, LAMBDA id : id \notin foundImageIds)

\* the handler up to the return of its SELECT: authCheck, the zod schema,
\* the SELECT of the object keys and the two 403 checks on its result
FilesDELETE(p, header, body) ==
  /\ Ready
  /\ Free(p)
  /\ LET auth == authCheck(header, OUR_AUTH_TOKEN)
         imageObjectKeys ==
           getImageObjectKeysByUserAndIds(images, auth.userId, Range(body))
         missing == missingImageIds(body, imageObjectKeys)
     IN IF ~auth.authenticated \/ auth.userId = "undefined"
        THEN Respond(p, Unauthorized)
        ELSE IF ~deleteImagesSchema(body)
        THEN Respond(p, InvalidRequest(deleteImagesIssues(body)))
        ELSE IF imageObjectKeys = {}
        THEN Respond(p, Error(403, "No images found or images do not belong to user"))
        ELSE IF Len(missing) > 0
        THEN Respond(p, [Error(403, "Some images not found or do not belong to user")
                           EXCEPT !.missingImageIds = missing])
        ELSE Goto(p, "delete_storage",
                  [NoReq EXCEPT !.userId = auth.userId, !.imageIds = body,
                                !.objectKeys =
                     {images[id].objectKey : id \in imageObjectKeys}])
  /\ UNCHANGED <<prep, upload, table, profile, OUR_AUTH_TOKEN, now, images, storage, grants>>

\* mutant: the Errors of the bucket's answer are not looked at
hasStorageErrors_Ignored(errors) == FALSE

\* response.Errors && response.Errors.length > 0
hasStorageErrors(errors) == errors # {}

\* deleteFiles returned: the bucket removed every key but those it reports
\* in Errors; with errors the handler answers 500, else it goes on
DeleteStorage(p, errors) ==
  /\ Ready
  /\ pc[p] = "delete_storage"
  /\ errors \subseteq req[p].objectKeys
  /\ storage' = storage \ (req[p].objectKeys \ errors)
  /\ IF hasStorageErrors(errors)
     THEN Respond(p, [Error(500, "Failed to delete some images from storage")
                        EXCEPT !.details = errors])
     ELSE Goto(p, "delete_mark", [req[p] EXCEPT !.errors = errors])
  /\ UNCHANGED <<prep, upload, table, profile, OUR_AUTH_TOKEN, now, images, grants>>

\* deleteFiles threw: the inner catch answers 500; the bucket may have
\* removed any of the keys before the call failed
DeleteStorageThrow(p, removed) ==
  /\ Ready
  /\ pc[p] = "delete_storage"
  /\ removed \subseteq req[p].objectKeys
  /\ storage' = storage \ removed
  /\ Respond(p, Error(500, "Failed to delete images from storage"))
  /\ UNCHANGED <<prep, upload, table, profile, OUR_AUTH_TOKEN, now, images, grants>>

\* the 200 response of DELETE
DeleteResponse(imgs, deleted) ==
  [NoResp EXCEPT
     !.kind = "delete", !.status = 200,
     !.deletedCount = Len(deleted),
     !.deletedImages = [i \in DOMAIN deleted |->
                          [id |-> deleted[i],
                           objectKey |-> imgs[deleted[i]].objectKey]]]

\* the soft-delete UPDATE and the 200 response
DeleteMark(p) ==
  /\ Ready
  /\ pc[p] = "delete_mark"
  /\ LET imageIds == Range(req[p].imageIds)
         deletedImages ==
           SortedSeq(markImagesAsDeletedWhere(images, imageIds, req[p].userId))
     IN /\ images' = markImagesAsDeleted(images, imageIds, req[p].userId, now)
        /\ Respond(p, DeleteResponse(images, deletedImages))
  /\ UNCHANGED <<prep, upload, table, profile, OUR_AUTH_TOKEN, now, storage, grants>>

\* the outer catch block: the SELECT of a request that passed authCheck
\* and the schema threw
DeleteCatch ==
  /\ Ready
  /\ \E header \in Headers, body \in DeleteBodies :
       /\ PassesAuth(header)
       /\ deleteImagesSchema(body)
  /\ response' = InternalError
  /\ UNCHANGED <<prep, upload, table, profile, OUR_AUTH_TOKEN, now, images, storage, grants, pc, req>>

\* the outer catch block: the soft-delete UPDATE threw after the bucket
\* removed the objects
DeleteMarkCatch(p) ==
  /\ Ready
  /\ pc[p] = "delete_mark"
  /\ Respond(p, InternalError)
  /\ UNCHANGED <<prep, upload, table, profile, OUR_AUTH_TOKEN, now, images, storage, grants>>

(* --------------------------- environment ------------------------------- *)
\* time passes
Tick ==
  /\ Ready
  /\ now + TickStep <= profile.time
  /\ now' = now + TickStep
  /\ response' = NoResp
  /\ UNCHANGED <<prep, upload, table, profile, OUR_AUTH_TOKEN, images, storage, grants, pc, req>>

\* the app is redeployed with another NEXT_PUBLIC_OUR_AUTH_TOKEN, or with
\* none, once the requests in flight have drained
Redeploy(token) ==
  /\ Ready
  /\ Unset \in profile.configs
  /\ token \in profile.configs
  /\ \A p \in Procs : pc[p] = "idle"
  /\ token # OUR_AUTH_TOKEN
  /\ OUR_AUTH_TOKEN' = token
  /\ response' = NoResp
  /\ UNCHANGED <<prep, upload, table, profile, now, images, storage, grants, pc, req>>

\* the response reaches the client
Deliver ==
  /\ response # NoResp
  /\ response' = NoResp
  /\ UNCHANGED <<prep, upload, table, profile, OUR_AUTH_TOKEN, now, images, storage, grants, pc, req>>

Next ==
  \/ \E header \in Headers :
       \E body \in BodiesOf(header, PresignBodies) : PresignPOST(header, body)
  \/ \E header \in Headers, body \in PresignBodies : PresignCatch(header, body)
  \/ \E url \in grants : ClientPUT(url)
  \/ \E p \in Procs, header \in Headers :
       \E body \in BodiesOf(header, ConfirmBodies) : ConfirmPOST(p, header, body)
  \/ \E p \in Procs : ConfirmFailed(p)
  \/ ConfirmCatch
  \/ \E p \in Procs : ConfirmFailedCatch(p)
  \/ \E header \in Headers : FilesGET(header)
  \/ FilesGETCatch
  \/ \E p \in Procs, header \in Headers :
       \E body \in BodiesOf(header, DeleteBodies) : FilesDELETE(p, header, body)
  \/ \E p \in Procs : \E errors \in SUBSET req[p].objectKeys :
       DeleteStorage(p, errors)
  \/ \E p \in Procs : \E removed \in SUBSET req[p].objectKeys :
       DeleteStorageThrow(p, removed)
  \/ \E p \in Procs : DeleteMark(p)
  \/ DeleteCatch
  \/ \E p \in Procs : DeleteMarkCatch(p)
  \/ Tick
  \/ \E token \in Configs : Redeploy(token)
  \/ Deliver

Spec == Init /\ [][Next]_vars

(* ----------------------- browser: handleUpload -------------------------- *)
\* the imageIds the presign results can carry
ResultIds == 1 .. MaxFiles + 1

\* the results of a presign response for n images: n distinct imageIds
PresignResultsFor(n) ==
  {r \in [1 .. n -> ResultIds] : \A i, j \in 1 .. n : i # j => r[i] # r[j]}

\* a browser with up to MaxFiles files selected; the API is idle
InitClient ==
  /\ OUR_AUTH_TOKEN = "u1"
  /\ now = 0
  /\ images = <<>>
  /\ storage = {}
  /\ grants = {}
  /\ pc = [p \in Procs |-> "idle"]
  /\ req = [p \in Procs |-> NoReq]
  /\ response = NoResp
  /\ profile = CHOOSE pr \in Profiles : pr.inflight = MaxInflight
  /\ prep = NoPrep
  /\ table = NoTable
  /\ upload \in {[NoUpload EXCEPT !.selectedFiles = n] : n \in 0 .. MaxFiles}

\* handleUpload is called: it returns at once when no file is selected and
\* else awaits prepareImagesForUpload
HandleUpload ==
  /\ upload.at = "idle"
  /\ upload' = [upload EXCEPT !.at = IF upload.selectedFiles = 0
                                     THEN "returned" ELSE "prepare"]
  /\ UNCHANGED <<server, prep, table>>

\* prepareImagesForUpload returns: the presign request is sent
UploadPrepared ==
  /\ upload.at = "prepare"
  /\ upload' = [upload EXCEPT !.at = "presign"]
  /\ UNCHANGED <<server, prep, table>>

\* prepareImagesForUpload or the presign request throws: the outer catch
\* and finally end the call
UploadCaught ==
  /\ upload.at \in {"prepare", "presign"}
  /\ upload' = [upload EXCEPT !.at = "caught"]
  /\ UNCHANGED <<server, prep, table>>

\* the presign response arrives: results.map starts the PUT of every result
PresignReturned(results) ==
  /\ upload.at = "presign"
  /\ results \in PresignResultsFor(upload.selectedFiles)
  /\ upload' = [upload EXCEPT !.at = "uploading",
                              !.results = results,
                              !.puts = [i \in DOMAIN results |-> "sent"]]
  /\ UNCHANGED <<server, prep, table>>

\* mutant: every settled PUT is reported completed
uploadStatus_AlwaysCompleted(imageId, succeeded) ==
  [imageId |-> imageId, status |-> "completed"]

\* the entry pushed to uploadStatuses when the PUT of imageId settles
uploadStatus(imageId, succeeded) ==
  [imageId |-> imageId, status |-> IF succeeded THEN "completed" ELSE "failed"]

\* the PUT of result i settles: axios.put resolves (succeeded) or throws
PutSettled(i, succeeded) ==
  /\ upload.at = "uploading"
  /\ i \in DOMAIN upload.puts
  /\ upload.puts[i] = "sent"
  /\ upload' = [upload EXCEPT
                  !.puts[i] = IF succeeded THEN "ok" ELSE "error",
                  !.uploadStatuses =
                     Append(@, uploadStatus(upload.results[i], succeeded))]
  /\ UNCHANGED <<server, prep, table>>

\* Promise.all(uploadPromises) resolves: the confirm request is sent with
\* the uploadStatuses collected
ConfirmSent ==
  /\ upload.at = "uploading"
  /\ \A i \in DOMAIN upload.puts : upload.puts[i] # "sent"
  /\ upload' = [upload EXCEPT !.at = "confirm",
                              !.updates = upload.uploadStatuses,
                              !.confirm = "sent"]
  /\ UNCHANGED <<server, prep, table>>

\* the confirm request returns, or throws into the inner catch: either way
\* the call goes on to its end
ConfirmSettled(succeeded) ==
  /\ upload.at = "confirm"
  /\ upload' = [upload EXCEPT !.at = "returned",
                              !.confirm = IF succeeded THEN "ok" ELSE "error"]
  /\ UNCHANGED <<server, prep, table>>

NextClient ==
  \/ HandleUpload
  \/ UploadPrepared
  \/ UploadCaught
  \/ \E results \in PresignResultsFor(upload.selectedFiles) :
       PresignReturned(results)
  \/ \E i \in 1 .. MaxFiles, succeeded \in BOOLEAN : PutSettled(i, succeeded)
  \/ ConfirmSent
  \/ \E succeeded \in BOOLEAN : ConfirmSettled(succeeded)

SpecClient == InitClient /\ [][NextClient]_vars

(* ------------- record store: the operations called directly ------------ *)
\* markImageCompleted(imageId, userId): the table after the UPDATE
markImageCompleted(imgs, imageId, userId, t) ==
  [id \in Ids(imgs) |->
     IF id = imageId /\ imgs[id].userId = userId
     THEN [imgs[id] EXCEPT !.status = "completed", !.completedAt = t]
     ELSE imgs[id]]

\* markImageFailed(imageId): the table after the UPDATE
markImageFailed(imgs, imageId, t) ==
  [id \in Ids(imgs) |->
     IF id = imageId
     THEN [imgs[id] EXCEPT !.status = "failed", !.completedAt = t]
     ELSE imgs[id]]

\* the table after one presign of one image by each of owners, in turn
RECURSIVE StoreOf(_)
StoreOf(owners) ==
  IF owners = <<>> THEN <<>>
  ELSE LET userId == owners[Len(owners)]
           image == CHOOSE x \in [fileId : FileIds, fileType : FileTypes,
                                  fileSize : FileSizes] : TRUE
       IN createImageRecordsBatch(
            StoreOf(SubSeq(owners, 1, Len(owners) - 1)),
            imageData(userId, presignedResults(userId, <<image>>, 0)), 0)

\* a table of pending records of either owner; no request is in flight
InitStore ==
  /\ OUR_AUTH_TOKEN = "u1"
  /\ now = 0
  /\ images \in {StoreOf(owners) : owners \in SeqsOf(Tokens, 1, MaxRecords)}
  /\ storage = {}
  /\ grants = {}
  /\ pc = [p \in Procs |-> "idle"]
  /\ req = [p \in Procs |-> NoReq]
  /\ response = NoResp
  /\ profile = CHOOSE pr \in Profiles : pr.time = MaxTime
  /\ prep = NoPrep
  /\ upload = NoUpload
  /\ table = NoTable

\* code acting for caller calls markImageCompleted(imageId, caller)
MarkImageCompleted(caller, imageId) ==
  /\ images' = markImageCompleted(images, imageId, caller, now)
  /\ UNCHANGED <<OUR_AUTH_TOKEN, now, storage, grants, pc, req, response,
                 profile, prep, upload, table>>

\* code acting for caller calls markImageFailed(imageId)
MarkImageFailed(caller, imageId) ==
  /\ caller \in Tokens
  /\ images' = markImageFailed(images, imageId, now)
  /\ UNCHANGED <<OUR_AUTH_TOKEN, now, storage, grants, pc, req, response,
                 profile, prep, upload, table>>

\* code acting for caller calls updateImageStatusBatch(imageIds, status, caller)
UpdateImageStatusBatch(caller, imageIds, status) ==
  /\ images' = updateImageStatusBatch(images, imageIds, status, caller, now)
  /\ UNCHANGED <<OUR_AUTH_TOKEN, now, storage, grants, pc, req, response,
                 profile, prep, upload, table>>

\* code acting for caller calls markImagesAsDeleted(imageIds, caller)
MarkImagesAsDeleted(caller, imageIds) ==
  /\ images' = markImagesAsDeleted(images, imageIds, caller, now)
  /\ UNCHANGED <<OUR_AUTH_TOKEN, now, storage, grants, pc, req, response,
                 profile, prep, upload, table>>

NextStore ==
  \/ \E caller \in Tokens, imageId \in KnownIds :
       MarkImageCompleted(caller, imageId)
  \/ \E caller \in Tokens, imageId \in KnownIds :
       MarkImageFailed(caller, imageId)
  \/ \E caller \in Tokens, imageIds \in SUBSET KnownIds :
       \E status \in {"completed", "failed"} :
         UpdateImageStatusBatch(caller, imageIds, status)
  \/ \E caller \in Tokens, imageIds \in SUBSET KnownIds :
       MarkImagesAsDeleted(caller, imageIds)
  \/ Tick

SpecStore == InitStore /\ [][NextStore]_vars

(* ------------------------ browser: ImagesTable ------------------------- *)
\* the component mounted with the rows of the caller's images, no call of
\* deleteImage under way; the API is idle
InitTable ==
  /\ OUR_AUTH_TOKEN = "u1"
  /\ now = 0
  /\ images = <<>>
  /\ storage = {}
  /\ grants = {}
  /\ pc = [p \in Procs |-> "idle"]
  /\ req = [p \in Procs |-> NoReq]
  /\ response = NoResp
  /\ profile = CHOOSE pr \in Profiles : pr.inflight = MaxInflight
  /\ prep = NoPrep
  /\ upload = NoUpload
  /\ table \in {[images |-> 1 .. n, deletingImageId |-> NULL,
                  deleting |-> [id \in 1 .. n |-> 0],
                  refetching |-> [id \in 1 .. n |-> 0]] : n \in 1 .. MaxRows}

\* the deleteImage calls that have not reached their finally block
CallsUnderWay ==
  LET ids == DOMAIN table.deleting
      Sum[S \in SUBSET ids] ==
        IF S = {} THEN 0
        ELSE LET id == CHOOSE x \in S : TRUE
             IN table.deleting[id] + table.refetching[id] + Sum[S \ {id}]
  IN Sum[ids]

\* disabled={deletingImageId === image.id}
DeleteDisabled(id) == table.deletingImageId = id

\* a click on the delete button of a row: deleteImage(image.id) sets
\* deletingImageId and sends the DELETE request
ClickDelete(id) ==
  /\ id \in table.images
  /\ ~DeleteDisabled(id)
  /\ CallsUnderWay < MaxDeletes
  /\ table' = [table EXCEPT !.deletingImageId = id, !.deleting[id] = @ + 1]
  /\ UNCHANGED <<server, prep, upload>>

\* axios.delete resolves: the call goes on to invalidateQueries
DeleteResolved(id) ==
  /\ id \in DOMAIN table.deleting
  /\ table.deleting[id] > 0
  /\ table' = [table EXCEPT !.deleting[id] = @ - 1, !.refetching[id] = @ + 1]
  /\ UNCHANGED <<server, prep, upload>>

\* axios.delete throws: catch, then finally sets deletingImageId to null
DeleteRejected(id) ==
  /\ id \in DOMAIN table.deleting
  /\ table.deleting[id] > 0
  /\ table' = [table EXCEPT !.deleting[id] = @ - 1, !.deletingImageId = NULL]
  /\ UNCHANGED <<server, prep, upload>>

\* invalidateQueries settles: the list is fetched again without the deleted
\* image, then finally sets deletingImageId to null
DeleteRefetched(id) ==
  /\ id \in DOMAIN table.refetching
  /\ table.refetching[id] > 0
  /\ table' = [table EXCEPT !.refetching[id] = @ - 1,
                            !.images = @ \ {id},
                            !.deletingImageId = NULL]
  /\ UNCHANGED <<server, prep, upload>>

NextTable ==
  \/ \E id \in 1 .. MaxRows : ClickDelete(id)
  \/ \E id \in 1 .. MaxRows : DeleteResolved(id)
  \/ \E id \in 1 .. MaxRows : DeleteRejected(id)
  \/ \E id \in 1 .. MaxRows : DeleteRefetched(id)

SpecTable == InitTable /\ [][NextTable]_vars

(* ------------- browser: prepareImagesForUpload(files, maxSizeKB) -------- *)
\* quality - 0.1 in IEEE doubles, the quality kept in thousandths rounded
\* up: 0.9, 0.8, 0.7000000000000001, ... , 0.10000000000000014 and then
\* 1.3877787807814457e-16
\* mutant: the next attempt is made at the same quality
lowerQuality_SameQuality(quality) == quality

lowerQuality(quality) ==
  CASE quality = 800 -> 701
    [] quality = 101 -> 1
    [] OTHER -> quality - 100

\* blob.size of canvas.toBlob(callback, 'image/webp', quality)
blobSize(file, quality) == file.floor + file.slope * quality

\* the call prepareImagesForUpload(files, maxSizeKB) with every file's
\* image still loading
prepareImagesForUpload(files, maxSizeKB) ==
  [maxSizeKB |-> maxSizeKB, files |-> files,
   quality |-> [i \in DOMAIN files |-> 0],
   settled |-> [i \in DOMAIN files |-> NULL],
   outcome |-> "pending"]

\* a browser in which one call of prepareImagesForUpload has been made; the
\* API is idle
InitPrepare ==
  /\ OUR_AUTH_TOKEN = "u1"
  /\ now = 0
  /\ images = <<>>
  /\ storage = {}
  /\ grants = {}
  /\ pc = [p \in Procs |-> "idle"]
  /\ req = [p \in Procs |-> NoReq]
  /\ response = NoResp
  /\ profile = CHOOSE pr \in Profiles : pr.inflight = MaxInflight
  /\ upload = NoUpload
  /\ table = NoTable
  /\ prep \in {prepareImagesForUpload(files, maxSizeKB) :
                 files \in SeqsOf(PrepFiles, 0, MaxFiles),
                 maxSizeKB \in MaxSizesKB}

\* file i's conversion has not settled
Converting(i) == i \in DOMAIN prep.files /\ prep.settled[i] = NULL

\* img.onload: the image is drawn and tryQuality(0.9) calls toBlob
ImgOnload(i) ==
  /\ Converting(i)
  /\ prep.quality[i] = 0
  /\ prep' = [prep EXCEPT !.quality[i] = 900]
  /\ UNCHANGED <<server, upload, table>>

\* img.onerror: reject(new Error('Failed to load image'))
ImgOnerror(i) ==
  /\ Converting(i)
  /\ prep.quality[i] = 0
  /\ prep' = [prep EXCEPT !.settled[i] = Rejected]
  /\ UNCHANGED <<server, upload, table>>

\* the toBlob callback with a blob: resolve when the blob fits or the
\* quality has reached the minimum, else tryQuality(quality - 0.1)
ToBlobCallback(i) ==
  /\ Converting(i)
  /\ prep.quality[i] > 0
  /\ LET quality == prep.quality[i]
         size == blobSize(prep.files[i], quality)
         maxSizeBytes == prep.maxSizeKB * 1024
     IN IF size <= maxSizeBytes \/ quality <= 100
        THEN prep' = [prep EXCEPT !.settled[i] = size]
        ELSE prep' = [prep EXCEPT !.quality[i] = lowerQuality(quality)]
  /\ UNCHANGED <<server, upload, table>>

\* the toBlob callback with null: reject(new Error('Failed to convert image'))
ToBlobNull(i) ==
  /\ Converting(i)
  /\ prep.quality[i] > 0
  /\ prep' = [prep EXCEPT !.settled[i] = Rejected]
  /\ UNCHANGED <<server, upload, table>>

\* Promise.all resolves: every conversion resolved; the results are returned
PrepareReturn ==
  /\ prep.outcome = "pending"
  /\ \A i \in DOMAIN prep.files : prep.settled[i] \notin {NULL, Rejected}
  /\ prep' = [prep EXCEPT !.outcome = "returned"]
  /\ UNCHANGED <<server, upload, table>>

\* Promise.all rejects with the first rejection, which is thrown again
PrepareThrow ==
  /\ prep.outcome = "pending"
  /\ \E i \in DOMAIN prep.files : prep.settled[i] = Rejected
  /\ prep' = [prep EXCEPT !.outcome = "threw"]
  /\ UNCHANGED <<server, upload, table>>

NextPrepare ==
  \/ \E i \in 1 .. MaxFiles : ImgOnload(i)
  \/ \E i \in 1 .. MaxFiles : ImgOnerror(i)
  \/ \E i \in 1 .. MaxFiles : ToBlobCallback(i)
  \/ \E i \in 1 .. MaxFiles : ToBlobNull(i)
  \/ PrepareReturn
  \/ PrepareThrow

SpecPrepare == InitPrepare /\ [][NextPrepare]_vars

\* the browser calls back every toBlob that was started
SpecPrepareFair ==
  SpecPrepare /\ \A i \in 1 .. MaxFiles : WF_vars(ToBlobCallback(i))

(* ======================= properties of the lifecycle =================== *)
\* the caller a request with this header is served as
Caller(header) == authCheck(header, OUR_AUTH_TOKEN).userId

\* a confirm request of one update
OneUpdate(id, status) == <<[imageId |-> id, status |-> status]>>

\* C1: a confirm naming an owned pending record with outcome o returns
\* updatedCount = 1 and gives the record status o; a confirm naming a record
\* that already has status o (it was confirmed with o before) returns
\* updatedCount = 0 and leaves its status and completion time unchanged.
C1_IdempotentConfirm ==
  [][\A p \in Procs, header \in Headers, id \in Ids(images),
        o \in {"completed", "failed"} :
       (/\ ConfirmPOST(p, header, OneUpdate(id, o))
        /\ Caller(header) = images[id].userId)
       => /\ images[id].status = "pending"
             => response'.updatedCount = 1 /\ images'[id].status = o
          /\ images[id].status = o
             => /\ response'.updatedCount = 0
                /\ images'[id].status = images[id].status
                /\ images'[id].completedAt = images[id].completedAt]_vars

\* C2: a record enters completed or failed only from pending.
C2_TerminalOnlyFromPending ==
  [][\A id \in Ids(images) :
       (/\ images'[id].status \in {"completed", "failed"}
        /\ images'[id].status # images[id].status)
       => images[id].status = "pending"]_vars

\* C3: a DELETE handler whose storage delete reports an error or throws
\* ends there with a 500 and no row changed; and a row becomes deleted only
\* in the soft-delete step of a handler that names it and whose storage
\* delete covered its key and returned without errors.
C3_DeletedOnlyAfterCleanStorageDelete ==
  [][/\ \A p \in Procs :
          (pc[p] = "delete_storage" /\ pc'[p] = "idle")
          => images' = images /\ response'.status = 500
     /\ \A p \in Procs : \A errors \in SUBSET req[p].objectKeys :
          (DeleteStorage(p, errors) /\ errors # {}) => pc'[p] = "idle"
     /\ \A id \in Ids(images) :
          (images[id].status # "deleted" /\ images'[id].status = "deleted")
          => \E p \in Procs :
               /\ pc[p] = "delete_mark" /\ pc'[p] = "idle"
               /\ id \in Range(req[p].imageIds)
               /\ images[id].objectKey \in req[p].objectKeys
               /\ req[p].errors = {}]_vars

\* C3 witness: the bucket reported an error for the key of a completed
\* record and the handler answered 500
C3_Witness ==
  /\ response.status = 500
  /\ \E id \in Ids(images) :
       images[id].objectKey \in response.details /\ images[id].status = "completed"

\* C4: a record whose status is deleted has no object under its storage key.
C4_NoObjectUnderDeletedRecord ==
  \A id \in Ids(images) :
    images[id].status = "deleted" => images[id].objectKey \notin storage

\* the updates of a confirm body that name a row owned by userId
OwnedUpdates(body, userId) ==
  {u \in Range(body) : u.imageId \in Ids(images) /\ images[u.imageId].userId = userId}

\* C5: a step taken for caller A changes no field of a row owned by another
\* caller, does not count such a row in updatedCount and does not list it in
\* deletedImages (deletedCount is the length of deletedImages).
C5_OwnershipIsolation ==
  [][/\ \A id \in Ids(images) :
          images[id].userId # OUR_AUTH_TOKEN
          => /\ images'[id] = images[id]
             /\ \A i \in DOMAIN response'.deletedImages :
                  response'.deletedImages[i].id # id
             /\ \A p \in Procs : \A i \in DOMAIN req'[p].allUpdatedImages :
                  req'[p].allUpdatedImages[i] # id
     /\ response'.deletedCount = Len(response'.deletedImages)
     /\ response'.kind = "confirm"
        => /\ \A p \in Procs, header \in Headers, body \in ConfirmBodies :
                ConfirmPOST(p, header, body)
                => response'.updatedCount
                     <= Cardinality(OwnedUpdates(body, Caller(header)))
           /\ \A p \in Procs :
                ConfirmFailed(p)
                => response'.updatedCount
                     <= Len(req[p].allUpdatedImages)
                        + Cardinality({id \in req[p].failed \cap Ids(images) :
                                         images[id].userId = req[p].userId})]_vars

\* C5 witness: a DELETE naming a completed record of another caller was
\* answered 403 with that record among the missing ones
C5_Witness ==
  /\ response.status = 403
  /\ \E i \in DOMAIN response.missingImageIds :
       LET id == response.missingImageIds[i] IN
       /\ id \in Ids(images)
       /\ images[id].userId # OUR_AUTH_TOKEN
       /\ images[id].status = "completed"

\* C6: rows are added only by a presign request answered 200, which adds
\* exactly as many rows as the request has items, all pending, and touches
\* no row that exists; a request answered 500 (for presign: the signing of
\* an item or the batch INSERT threw) adds no row in the step that answers.
C6_AtomicBatchCreation ==
  [][/\ Len(images') # Len(images)
        => /\ response'.kind = "presign" /\ response'.status = 200
           /\ Len(images') = Len(images) + Len(response'.results)
           /\ \A id \in Ids(images) : images'[id] = images[id]
           /\ \A id \in Ids(images') \ Ids(images) :
                images'[id].status = "pending"
     /\ response'.kind = "presign"
        => \A header \in Headers, body \in PresignBodies :
             PresignPOST(header, body)
             => /\ Len(response'.results) = Len(body)
                /\ Len(images') = Len(images) + Len(body)
     /\ response'.status = 500 => images' = images]_vars

\* C6 witness: a presign of two items was answered 200 and its two rows are
\* the pending rows named in the response
C6_Witness ==
  /\ response.kind = "presign"
  /\ Len(response.results) = 2
  /\ \A i \in DOMAIN response.results :
       images[response.results[i].imageId].status = "pending"

\* the requested ids that name a completed row owned by userId
Resolved(body, userId) ==
  {id \in Range(body) \cap Ids(images) :
     images[id].userId = userId /\ images[id].status = "completed"}

\* a DELETE request that passes authCheck and the schema is being looked up
DeleteLookupStep(p, header, body) ==
  /\ Free(p)
  /\ Caller(header) # "undefined"
  /\ deleteImagesSchema(body)
  /\ FilesDELETE(p, header, body)

\* the step answers 403 and leaves the handler, the table and the bucket
Refused403(p) ==
  /\ response'.status = 403
  /\ pc'[p] = "idle"
  /\ images' = images
  /\ storage' = storage

\* C7: a row becomes deleted only from completed; and a DELETE naming a row
\* of the caller that is pending, failed or deleted when the handler looks
\* it up is answered 403, issues no storage delete and changes no row.
C7_DeletedOnlyFromCompleted ==
  [][/\ \A id \in Ids(images) :
          (images'[id].status = "deleted" /\ images[id].status # "deleted")
          => images[id].status = "completed"
     /\ \A p \in Procs, header \in Headers, body \in DeleteBodies :
          (/\ DeleteLookupStep(p, header, body)
           /\ \E id \in Range(body) \cap Ids(images) :
                /\ images[id].userId = Caller(header)
                /\ images[id].status \in {"pending", "failed", "deleted"})
          => Refused403(p)]_vars

\* C7 witness: a DELETE naming a completed row and a row of the caller that
\* is not completed was answered 403
C7_Witness ==
  /\ response.status = 403
  /\ \E i \in DOMAIN response.missingImageIds :
       LET id == response.missingImageIds[i] IN
       /\ id \in Ids(images)
       /\ images[id].userId = OUR_AUTH_TOKEN
       /\ images[id].status \in {"pending", "failed", "deleted"}

\* C8: a DELETE of which some requested id does not resolve to a completed
\* row of the caller is answered 403, issues no storage delete and changes
\* no row; when some id did resolve, missingImageIds holds exactly the
\* requested ids that did not.
C8_DeleteResolvesAllOrNothing ==
  [][\A p \in Procs, header \in Headers, body \in DeleteBodies :
       (/\ DeleteLookupStep(p, header, body)
        /\ Resolved(body, Caller(header)) # Range(body))
       => /\ Refused403(p)
          /\ Resolved(body, Caller(header)) # {}
             => Range(response'.missingImageIds)
                  = Range(body) \ Resolved(body, Caller(header))]_vars

\* C8 witness: a DELETE of two ids of which exactly one resolved was
\* answered 403 with the other one reported missing
C8_Witness ==
  /\ response.status = 403
  /\ Len(response.missingImageIds) = 1
  /\ \E id \in Ids(images) :
       /\ id \notin Range(response.missingImageIds)
       /\ images[id].userId = OUR_AUTH_TOKEN
       /\ images[id].status = "completed"

\* C9: a row that a DELETE answered 200 counted as deleted (its status is
\* deleted) is not returned by GET files for its owner after any later step.
C9_DeletedStaysUnlisted ==
  [][\A id \in Ids(images) :
       images[id].status = "deleted"
       => id \notin getCompletedImagesByUserId(images', images[id].userId)]_vars

\* C10: when a DELETE handler, having removed the objects of all the rows
\* it names from the bucket, answers 200, every row it names has status
\* deleted, whatever other handlers did in between.
C10_RemovedObjectsEndDeleted ==
  [][\A p \in Procs :
       DeleteMark(p)
       => \A id \in Range(req[p].imageIds) : images'[id].status = "deleted"]_vars

(* ================== properties of presign and of auth ================== *)
\* C11: no two records share the same storage key.
C11_StorageKeyUnique ==
  \A i, j \in Ids(images) :
    i # j => images[i].objectKey # images[j].objectKey

\* two items of a presign body carry the same fileId
HasDuplicateFileId(body) ==
  \E i, j \in DOMAIN body : i # j /\ body[i].fileId = body[j].fileId

\* the step answers 400 and issues no grant and creates no record
Rejected400 ==
  /\ response'.status = 400
  /\ grants' = grants
  /\ images' = images

\* C12: a presign request of an authenticated caller whose batch holds two
\* items with the same fileId is answered with a validation error, without
\* a grant issued or a record created.
C12_DuplicateFileIdRejected ==
  [][\A header \in Headers, body \in PresignBodies :
       (/\ HasDuplicateFileId(body)
        /\ Caller(header) # "undefined"
        /\ PresignPOST(header, body))
       => Rejected400]_vars

\* the body breaks a bound of presign: no item, more than MAX_IMAGES items,
\* or an item whose fileSize is not positive or exceeds the maximum
OutOfBounds(body) ==
  \/ Len(body) = 0
  \/ Len(body) > MAX_IMAGES
  \/ \E i \in DOMAIN body :
       body[i].fileSize <= 0 \/ body[i].fileSize > MAX_IMAGE_SIZE_BYTES

\* C13: a presign request of an authenticated caller that breaks a bound is
\* answered 400 in the step that validates it, which issues no grant and
\* creates no record; the details name the bound that was broken.
C13_PresignBoundsEnforced ==
  [][\A header \in Headers, body \in PresignBodies :
       (/\ OutOfBounds(body)
        /\ Caller(header) # "undefined"
        /\ PresignPOST(header, body))
       => /\ Rejected400
          /\ response'.details # {}
          /\ \A issue \in response'.details : issue.path[1] = "images"]_vars

\* C13 witness: a presign of MAX_IMAGES + 1 items was answered 400 while
\* no grant and no record exists
C13_Witness ==
  /\ response.status = 400
  /\ ZodIssue("too_big", <<"images">>) \in response.details
  /\ grants = {}
  /\ images = <<>>

\* the authorization header is missing or differs from the expected one
Mismatched(header) == header = NoHeader \/ header # Bearer(OUR_AUTH_TOKEN)

\* the step answers 401 and returns: it leaves the table, the bucket and the
\* grants as they are and suspends no handler at a further call
FailedClosed ==
  /\ response' = Unauthorized
  /\ images' = images
  /\ storage' = storage
  /\ grants' = grants
  /\ pc' = pc

\* C14: a presign, confirm, GET files or DELETE files request whose
\* authorization header is missing or differs from the expected credential
\* is answered 401 in the handler's first step, whatever its body, and that
\* step changes no record, issues no grant and deletes nothing from storage.
C14_AuthFailsClosed ==
  [][FailedClosed \/
     LET mismatched == {header \in Headers : Mismatched(header)}
     IN /\ \A header \in mismatched : ~FilesGET(header)
        /\ \A body \in PresignBodies :
             \A header \in mismatched : ~PresignPOST(header, body)
        /\ \A p \in Procs :
             Free(p)
             => /\ \A body \in DeleteBodies :
                     \A header \in mismatched : ~FilesDELETE(p, header, body)
                /\ \A body \in ConfirmBodies :
                     \A header \in mismatched : ~ConfirmPOST(p, header, body)]_vars

\* C14 witness: a request was answered 401 while the caller of the deployed
\* credential owns a completed record with its object in storage
C14_Witness ==
  /\ response = Unauthorized
  /\ \E id \in Ids(images) :
       /\ images[id].userId = OUR_AUTH_TOKEN
       /\ images[id].status = "completed"
       /\ images[id].objectKey \in storage

(* ======================= properties of the listing ===================== *)
\* C15: GET files of caller u returns each completed record of u once and
\* no other record, in ascending order of creation time, and changes no
\* record.
C15_ListingExactlyCompleted ==
  [][\A header \in Headers :
       (Caller(header) # "undefined" /\ FilesGET(header))
       => LET rows == response'.images IN
          /\ response'.status = 200
          /\ Range(rows) =
               {id \in Ids(images) : /\ images[id].userId = Caller(header)
                                     /\ images[id].status = "completed"}
          /\ \A i, j \in DOMAIN rows : i # j => rows[i] # rows[j]
          /\ \A i, j \in DOMAIN rows :
               i < j => images[rows[i]].createdAt <= images[rows[j]].createdAt
          /\ images' = images]_vars

\* C15 witness: a listing of two records created at different times
C15_Witness ==
  /\ response.kind = "get"
  /\ Len(response.images) = 2
  /\ images[response.images[1]].createdAt < images[response.images[2]].createdAt

(* ======================= properties of confirm ========================= *)
\* the rows of userId among ids that are pending
PendingOwned(ids, userId) ==
  {id \in ids \cap Ids(images) :
     images[id].userId = userId /\ images[id].status = "pending"}

\* C16: the updatedCount of a confirm response is the number of distinct
\* records the request changed, which are records of the caller that were
\* pending; for a request answered after one UPDATE that is the number of
\* pending records of the caller it names, and for a request of two
\* groups it is the number of distinct records its two UPDATEs changed.
C16_UpdatedCountIsRecordsChanged ==
  [][response'.kind = "confirm"
     => /\ \A p \in Procs, header \in Headers, body \in ConfirmBodies :
             ConfirmPOST(p, header, body)
             => response'.updatedCount =
                  Cardinality(PendingOwned({body[i].imageId : i \in DOMAIN body},
                                           Caller(header)))
        /\ \A p \in Procs :
             ConfirmFailed(p)
             => response'.updatedCount =
                  Cardinality(Range(req[p].allUpdatedImages)
                                \cup PendingOwned(req[p].failed, req[p].userId))]_vars

\* C17: a confirm request that ends with a 500 has changed no record: when
\* the handler answers 500 after the UPDATE of its completed group, no
\* record that UPDATE returned is left completed.
C17_ConfirmAtomic ==
  [][\A p \in Procs :
       (/\ pc[p] = "confirm_failed"
        /\ pc'[p] = "idle"
        /\ response'.status = 500)
       => \A id \in Range(req[p].allUpdatedImages) :
            images'[id].status # "completed"]_vars

\* the updates carry the true outcome of each upload: each names a record
\* of userId and reports completed exactly when the object is in storage
Truthful(body, userId) ==
  \A i \in DOMAIN body :
    LET u == body[i] IN
    /\ u.imageId \in Ids(images)
    /\ images[u.imageId].userId = userId
    /\ u.status = "completed" <=> images[u.imageId].objectKey \in storage

\* C18: a confirm request that carries the true outcome of each upload is
\* answered 200 and leaves every record it names completed if its object
\* is in storage and failed otherwise, none pending: the UPDATE of the
\* completed group makes its records completed, the UPDATE of the failed
\* group makes its records failed and leaves the completed ones alone, and
\* the response follows the last UPDATE.
C18_ConvergesInOneConfirm ==
  [][/\ \A p \in Procs, header \in Headers :
          (Free(p) /\ Caller(header) # "undefined")
          => \A body \in ConfirmBodies :
               (/\ Truthful(body, Caller(header))
                /\ confirmUploadSchema(body)
                /\ ConfirmPOST(p, header, body))
               => LET completed == groupedUpdates(body, "completed")
                      failed == groupedUpdates(body, "failed")
                  IN /\ \A id \in completed : images'[id].status = "completed"
                     /\ IF completed # {} /\ failed # {}
                        THEN /\ pc'[p] = "confirm_failed"
                             /\ req'[p].failed = failed
                        ELSE /\ response'.status = 200
                             /\ \A id \in failed : images'[id].status = "failed"
     /\ \A p \in Procs :
          ConfirmFailed(p)
          => /\ response'.status = 200
             /\ \A id \in req[p].failed \cap Ids(images) :
                  images[id].userId = req[p].userId
                  => images'[id].status = "failed"
             /\ \A id \in Ids(images) \ req[p].failed :
                  images'[id] = images[id]]_vars

\* C18 witness: a confirm was answered 200 for two records, of which the
\* one whose object is in storage is completed and the other one failed
C18_Witness ==
  /\ response.kind = "confirm"
  /\ response.updatedCount = 2
  /\ \E i, j \in Ids(images) :
       /\ images[i].status = "completed" /\ images[i].objectKey \in storage
       /\ images[j].status = "failed" /\ images[j].objectKey \notin storage

(* ======================== properties of the fields ===================== *)
\* C19: the expiresAt that presign returns for an item is the time at which
\* the item's signed URL expires: the time of signing plus EXPIRES_IN.
C19_ExpiresAtIsGrantExpiry ==
  \A i \in DOMAIN response.results :
    response.results[i].expiresAt = response.results[i].presignedUrl.expires

\* C20: a record's completedAt is NULL exactly when its status is pending.
C20_CompletedAtIffNotPending ==
  \A id \in Ids(images) :
    images[id].completedAt = NULL <=> images[id].status = "pending"

\* C20 witness: a pending record without completion time beside a failed
\* record that has one
C20_Witness ==
  \E i, j \in Ids(images) :
    /\ images[i].status = "pending" /\ images[i].completedAt = NULL
    /\ images[j].status = "failed" /\ images[j].completedAt # NULL

(* ===================== properties of the record store ================== *)
\* C21: no step removes a record: every identifier of the table is one of
\* the table after the step, and the records a DELETE answered 200 reports
\* as deleted are rows of the table with status deleted.
C21_NoHardDelete ==
  [][/\ Ids(images) \subseteq Ids(images')
     /\ \A i \in DOMAIN response'.deletedImages :
          LET d == response'.deletedImages[i] IN
          /\ d.id \in Ids(images')
          /\ images'[d.id].status = "deleted"
          /\ images'[d.id].objectKey = d.objectKey]_vars

\* C21 witness: a DELETE answered 200 for a record that is still a row of
\* the table, beside another record
C21_Witness ==
  /\ response.kind = "delete"
  /\ response.deletedCount = 1
  /\ Len(images) = 2
  /\ images[response.deletedImages[1].id].status = "deleted"

\* C22: no step changes the owner, storage key, public URL, MIME type, size
\* or creation time of a record.
C22_OnlyStatusAndCompletedAtChange ==
  [][\A id \in Ids(images) \cap Ids(images') :
       /\ images'[id].userId = images[id].userId
       /\ images'[id].objectKey = images[id].objectKey
       /\ images'[id].fileUrl = images[id].fileUrl
       /\ images'[id].mimeType = images[id].mimeType
       /\ images'[id].sizeBytes = images[id].sizeBytes
       /\ images'[id].createdAt = images[id].createdAt]_vars

\* C22 witness: a record deleted later than it was created
C22_Witness ==
  \E id \in Ids(images) :
    /\ images[id].status = "deleted"
    /\ images[id].createdAt < images[id].completedAt

\* C23: the i-th result of a presign answered 200 belongs to the i-th item
\* of the request: its objectKey is caller/fileId, its URLs are those of
\* that key, and its imageId names the pending record created by this
\* request under that key; no two results name the same record.
C23_ResultsPairedByIndex ==
  [][\A header \in Headers :
       (response'.kind = "presign" /\ Caller(header) # "undefined")
       => \A body \in PresignBodies :
            (PresignPOST(header, body) /\ response'.status = 200)
            => LET results == response'.results IN
               /\ Len(results) = Len(body)
               /\ \A i \in DOMAIN body :
                    LET r == results[i] IN
                    /\ r.objectKey = <<Caller(header), body[i].fileId>>
                    /\ r.publicFileUrl = <<R2_PUBLIC_BASE_URL, r.objectKey>>
                    /\ r.presignedUrl.key = r.objectKey
                    /\ r.imageId \in Ids(images') \ Ids(images)
                    /\ images'[r.imageId].objectKey = r.objectKey
                    /\ images'[r.imageId].status = "pending"
               /\ \A i, j \in DOMAIN results :
                    i # j => results[i].imageId # results[j].imageId]_vars

\* C23 witness: a presign of two items with different fileIds was answered
\* with each record under the key of its result
C23_Witness ==
  /\ response.kind = "presign"
  /\ Len(response.results) = 2
  /\ response.results[1].objectKey # response.results[2].objectKey
  /\ \A i \in DOMAIN response.results :
       images[response.results[i].imageId].objectKey
         = response.results[i].objectKey

(* ====================== properties under concurrency =================== *)
\* C25: a DELETE answered 200 reports as deletedCount the number of
\* distinct ids it was asked to delete, and its own UPDATE moved each of
\* those records from completed to deleted.
C25_Delete200DeletedAllRequested ==
  [][\A p \in Procs :
       DeleteMark(p)
       => LET imageIds == Range(req[p].imageIds) IN
          /\ response'.deletedCount = Cardinality(imageIds)
          /\ \A id \in imageIds :
               /\ images[id].status = "completed"
               /\ images'[id].status = "deleted"]_vars

\* C26: of two confirm requests of the owner that name the same pending
\* record with different outcomes, only the first takes effect: the one
\* that finds the record completed or failed with the other outcome counts
\* no record and leaves the record as it is.
C26_SecondOutcomeHasNoEffect ==
  [][\A p \in Procs, header \in Headers, id \in Ids(images),
        o \in {"completed", "failed"} :
       (/\ images[id].status \in {"completed", "failed"} \ {o}
        /\ Caller(header) = images[id].userId
        /\ ConfirmPOST(p, header, OneUpdate(id, o)))
       => /\ response'.updatedCount = 0
          /\ images'[id] = images[id]]_vars

\* the ids a confirm body reports with the status
ReportedAs(body, status) ==
  {body[i].imageId : i \in {j \in DOMAIN body : body[j].status = status}}

\* C27: a confirm handler issues one UPDATE per non-empty group and no
\* other: a valid request is answered after its first UPDATE or goes on to
\* a second one, it goes on exactly when the request reports ids of both
\* outcomes, that second UPDATE is its last step, and a step of it changes
\* only records of the group whose status it sets.
C27_AtMostTwoUpdates ==
  [][\A p \in Procs :
       /\ pc[p] = "confirm_failed"
          => /\ req[p].failed # {}
             /\ pc'[p] \in {"confirm_failed", "idle"}
             /\ ConfirmFailed(p)
                => \A id \in Ids(images) :
                     images'[id] # images[id] => id \in req[p].failed
       /\ (Free(p) /\ (response'.kind = "confirm" \/ pc'[p] = "confirm_failed"))
          => \A header \in Headers :
               Caller(header) # "undefined"
               => \A body \in ConfirmBodies :
                    (confirmUploadSchema(body) /\ ConfirmPOST(p, header, body))
                    => LET completed == ReportedAs(body, "completed")
                           failed == ReportedAs(body, "failed")
                       IN /\ pc'[p] = "confirm_failed"
                               <=> (completed # {} /\ failed # {})
                          /\ pc'[p] = "confirm_failed" => req'[p].failed = failed
                          /\ \A id \in Ids(images) :
                               images'[id] # images[id]
                               => id \in ReportedAs(body, images'[id].status)]_vars

\* C27 witness: a confirm handler between its two UPDATEs
C27_Witness ==
  \E p \in Procs :
    /\ pc[p] = "confirm_failed"
    /\ req[p].failed # {}
    /\ req[p].allUpdatedImages # <<>>

\* C30: a DELETE handler that ends leaves no completed record it named
\* without its object: when it ends at the storage delete (errors reported
\* or the call threw), every named record that stays completed keeps the
\* object it had; when it ends after a storage delete without errors, no
\* named record stays completed.
C30_ListedRecordsHaveObjects ==
  [][\A p \in Procs :
       /\ (pc[p] = "delete_storage" /\ pc'[p] = "idle")
          => \A id \in Range(req[p].imageIds) :
               (images'[id].status = "completed"
                  /\ images[id].objectKey \in storage)
               => images[id].objectKey \in storage'
       /\ (pc[p] = "delete_mark" /\ pc'[p] = "idle")
          => \A id \in Range(req[p].imageIds) :
               images'[id].status # "completed"]_vars

\* the body of a confirm request fails validation: no item, more than
\* MAX_IMAGES items, an id that is not a UUID, or a status other than
\* completed and failed
InvalidConfirmBody(body) ==
  \/ Len(body) = 0
  \/ Len(body) > MAX_IMAGES
  \/ \E i \in DOMAIN body :
       body[i].imageId = NotUuid \/ body[i].status \notin {"completed", "failed"}

\* the body of a delete request fails validation
InvalidDeleteBody(body) ==
  \/ Len(body) = 0
  \/ Len(body) > MAX_IMAGES
  \/ \E i \in DOMAIN body : body[i] = NotUuid

\* the handler returns 400 in the step that validates the body: its answer
\* carries the zod issues and nothing of the record store, no handler is
\* left suspended at a store or storage call, and records, objects and
\* grants are as they were
RefusedUnread ==
  /\ response'.status = 400
  /\ response'.details # {}
  /\ response' = InvalidRequest(response'.details)
  /\ pc' = pc
  /\ req' = req
  /\ images' = images
  /\ storage' = storage
  /\ grants' = grants

\* C28: a confirm or delete request of an authenticated caller whose body
\* fails validation is answered 400 by the step that validates it, without
\* a read or a change of the record store and without a storage delete.
C28_InvalidBodyRefusedBeforeStore ==
  [][\A p \in Procs :
       (Ready /\ Free(p))
       => \A header \in Headers :
            Caller(header) # "undefined"
            => /\ \A body \in {b \in ConfirmBodies : InvalidConfirmBody(b)} :
                    ConfirmPOST(p, header, body) => RefusedUnread
               /\ \A body \in {b \in DeleteBodies : InvalidDeleteBody(b)} :
                    FilesDELETE(p, header, body) => RefusedUnread]_vars

\* C28 witness: a delete request naming a malformed id was answered 400
\* while the store holds a completed record with its object
C28_Witness ==
  /\ response.status = 400
  /\ ZodIssue("invalid_string", <<"imageIds", 0>>) \in response.details
  /\ \E id \in Ids(images) :
       images[id].status = "completed" /\ images[id].objectKey \in storage

\* C24: the images prepareImagesForUpload returns each have a size of at
\* most maxSizeKB * 1024 bytes.
C24_PreparedImagesFit ==
  prep.outcome = "returned"
  => \A i \in DOMAIN prep.files : prep.settled[i] <= prep.maxSizeKB * 1024

\* C29: once the confirm request is sent, the PUT of every presign result
\* has settled and the request holds one update for each result, completed
\* exactly when that result's PUT succeeded; when prepare or presign
\* throws, no PUT and no confirm request has been sent.
C29_ConfirmAfterAllPutsSettled ==
  /\ upload.confirm # "none"
     => /\ \A i \in DOMAIN upload.puts : upload.puts[i] \in {"ok", "error"}
        /\ Len(upload.updates) = Len(upload.results)
        /\ \A i \in DOMAIN upload.results :
             \E j \in DOMAIN upload.updates :
               /\ upload.updates[j].imageId = upload.results[i]
               /\ upload.updates[j].status = "completed" <=> upload.puts[i] = "ok"
               /\ \A k \in DOMAIN upload.updates :
                    upload.updates[k].imageId = upload.results[i] => k = j
  /\ upload.at = "caught"
     => /\ upload.puts = <<>>
        /\ upload.confirm = "none"

\* C29 witness: a confirm request was sent for two results of which the
\* second's PUT settled first and failed while the first's succeeded
C29_Witness ==
  /\ upload.confirm = "sent"
  /\ upload.puts = <<"ok", "error">>
  /\ Len(upload.updates) = 2
  /\ upload.updates[1].imageId = upload.results[2]

\* C31: a presign request that is answered 200 issues, for every item,
\* one grant for the storage key, content type and byte size stored in the
\* record created for that item, which are those the item declared; it
\* issues no other grant.
C31_GrantMatchesRecord ==
  [][\A header \in Headers :
       (Caller(header) # "undefined" /\ response'.kind = "presign")
       => \A body \in PresignBodies :
            (PresignPOST(header, body) /\ response'.status = 200)
            => /\ Len(response'.results) = Len(body)
               /\ \A i \in DOMAIN body :
                    LET result == response'.results[i]
                        grant == result.presignedUrl
                        record == images'[result.imageId]
                    IN /\ result.imageId \in Ids(images') \ Ids(images)
                       /\ grant \in grants'
                       /\ grant.key = record.objectKey
                       /\ grant.contentType = record.mimeType
                       /\ grant.contentLength = record.sizeBytes
                       /\ record.mimeType = body[i].fileType
                       /\ record.sizeBytes = body[i].fileSize
               /\ grants' \ grants \subseteq
                    {response'.results[i].presignedUrl : i \in DOMAIN body}]_vars

\* C31 witness: one presign request created two records of different type
\* and size, each with the grant of its own descriptor
C31_Witness ==
  /\ response.kind = "presign"
  /\ Len(response.results) = 2
  /\ LET r1 == images[response.results[1].imageId]
         r2 == images[response.results[2].imageId]
     IN /\ r1.mimeType # r2.mimeType
        /\ r1.sizeBytes # r2.sizeBytes
        /\ response.results[1].presignedUrl.contentLength = r1.sizeBytes
        /\ response.results[2].presignedUrl.contentLength = r2.sizeBytes

\* C32: for every header and every configuration of the expected token,
\* authCheck reports the request authenticated exactly when it yields a
\* defined userId.
C32_IdentityIffAuthenticated ==
  \A header \in Headers :
    LET auth == authCheck(header, OUR_AUTH_TOKEN)
    IN auth.authenticated <=> auth.userId # "undefined"

\* C33: the images table never has two delete requests for the same image
\* in flight at once.
C33_OneDeleteInFlightPerImage ==
  \A id \in DOMAIN table.deleting : table.deleting[id] <= 1

\* C34: every record's status is pending, completed, failed or deleted;
\* none is ever canceled.
C34_NoRecordCanceled ==
  \A id \in Ids(images) :
    images[id].status \in {"pending", "completed", "failed", "deleted"}

\* C34 witness: after presign, confirm and delete requests one record is
\* failed and another deleted
C34_Witness ==
  \E i, j \in Ids(images) :
    images[i].status = "failed" /\ images[j].status = "deleted"

\* the qualities tryQuality is called with, in thousandths rounded up
TriedQualities == {900, 800, 701, 601, 501, 401, 301, 201, 101, 1}

\* C35: the quality loop of a conversion ends: every toBlob callback either
\* settles the conversion or starts one more attempt at a lower quality out
\* of the ten from 0.9 down, and a conversion whose encoding has started is
\* eventually resolved or rejected, whether or not any quality brings the
\* blob under the limit.
C35_QualityLoopTerminates ==
  /\ [][\A i \in 1 .. MaxFiles :
          ToBlobCallback(i)
          => \/ prep'.settled[i] # NULL
             \/ /\ prep'.quality[i] < prep.quality[i]
                /\ prep'.quality[i] \in TriedQualities]_vars
  /\ \A i \in 1 .. MaxFiles :
       (i \in DOMAIN prep.files /\ prep.quality[i] > 0)
         ~> (i \in DOMAIN prep.files /\ prep.settled[i] # NULL)

\* C35 witness: a conversion was resolved at the last quality with a blob
\* still over the limit
C35_Witness ==
  \E i \in DOMAIN prep.files :
    /\ prep.quality[i] = 1
    /\ prep.settled[i] > prep.maxSizeKB * 1024

\* a step changed the status of no record but records of caller
OnlyChangesRecordsOf(caller) ==
  \A id \in Ids(images) :
    images'[id].status # images[id].status => images[id].userId = caller

\* C36: a call of updateImageStatusBatch, markImagesAsDeleted,
\* markImageCompleted or markImageFailed made for a caller changes the
\* status of records of that caller only.
C36_StatusChangesOwnedOnly ==
  [][\A caller \in Tokens :
       /\ \A imageId \in KnownIds :
            /\ MarkImageCompleted(caller, imageId) => OnlyChangesRecordsOf(caller)
            /\ MarkImageFailed(caller, imageId) => OnlyChangesRecordsOf(caller)
       /\ \A imageIds \in SUBSET KnownIds :
            /\ MarkImagesAsDeleted(caller, imageIds)
                 => OnlyChangesRecordsOf(caller)
            /\ \A status \in {"completed", "failed"} :
                 UpdateImageStatusBatch(caller, imageIds, status)
                 => OnlyChangesRecordsOf(caller)]_vars

====
